---- MODULE Spec2Model ----
(***************************************************************************)
(* metalsmith-nestedlayouts, lib/index.js: one invocation of the plugin    *)
(* (the module.exports of line 487, which is the one the module ends up    *)
(* exporting) as a state machine.  One action is one synchronous handler:  *)
(* the plugin function itself, the callback of the nested load, and each   *)
(* callback of the promise chain of lines 529-539.                         *)
(* SpecPasses runs such invocations one after the other in one process,   *)
(* where the module-level layoutsPrefix and transformer cache persist.     *)
(*                                                                         *)
(* Strings that the code splits are kept split: a file or layout name is   *)
(* the sequence of its '.'-separated pieces ("a.hbs" is <<"a","hbs">>), a  *)
(* directory is the sequence of its path segments ('' is <<>>).  A payload *)
(* is a sequence of tokens.  The `layout` property ranges over undefined,  *)
(* false and strings; other truthy values (numbers, true) are left out.    *)
(***************************************************************************)
EXTENDS Integers, Sequences, FiniteSets, TLC

\* Number of layout files in the layout directory.
MaxLayouts == 3

\* Number of layout files in the larger layout directory of InitLevels.
LevelLayouts == 5

\* Number of passes run one after the other in the same process.
MaxPasses == 2

----------------------------------------------------------------------------
\* JavaScript values of a `layout` property or of the `default` option.
Undefined == [kind |-> "undefined", segs |-> <<>>]
False == [kind |-> "false", segs |-> <<>>]
Str(segs) == [kind |-> "string", segs |-> segs]
EmptyStr == Str(<<"">>)

\* JS truthiness of such a value: undefined, false and '' are falsy.
Truthy(v) == v.kind = "string" /\ v.segs # <<"">>

\* layout.includes('.')
IncludesDot(v) == Len(v.segs) > 1

\* layout.split('.').pop()
Extension(v) == v.segs[Len(v.segs)]

Last(s) == s[Len(s)]

\* f overlaid by g: Object.assign on two property maps.
Assign(f, g) ==
  [k \in DOMAIN f \cup DOMAIN g |-> IF k \in DOMAIN g THEN g[k] ELSE f[k]]

NoData == [k \in {} |-> ""]

----------------------------------------------------------------------------
\* Names and payloads of the modelled build.

LayoutBases == <<"a", "b", "c", "d", "e", "f">>
LayoutName(i) == <<LayoutBases[i], "hbs">>
LayoutIds == 1..MaxLayouts
LayoutNames == {LayoutName(i) : i \in LayoutIds}
Missing == <<"missing", "hbs">>

\* Tokens of a payload.
Placeholder == "{{{contents}}}"
BadToken == "{{#"
BinaryToken == "0xFF"

\* The layout directory, inside the source root (directory: 'src/layouts')
\* or outside it (the default directory: 'layouts'); source root './src'.
SourceRoot == <<"src">>
DirInside == <<"src", "layouts">>
DirOutside == <<"layouts">>

Path(dir, base) == [dir |-> dir, base |-> base]
IndexPath == Path(<<>>, <<"index", "md">>)
PostPath == Path(<<>>, <<"post", "html">>)
ContentPaths == {IndexPath, PostPath}
LayoutPath(name) == Path(<<"layouts">>, name)
LayoutPaths == {LayoutPath(n) : n \in LayoutNames}

\* Shared metadata and front-matter data (section 8 of the description:
\* shared {a:1}, layout a.hbs {a:2, b:2}, index.md {a:3}).
Metadata == ("a" :> "1")
LayoutData(i) == IF i = 1 THEN ("a" :> "2" @@ "b" :> "2")
                 ELSE IF i = 2 THEN ("c" :> "4") ELSE NoData
ContentData(p) == IF p = IndexPath THEN ("a" :> "3") ELSE NoData

----------------------------------------------------------------------------
\* Transformers.

\* inputformat-to-jstransformer: only jstransformer-handlebars is installed.
toTransformer(ext) == ext \in {"hbs", "handlebars"}

\* getTransformer: the cached handle if there is one, else a fresh lookup.
getTransformer(c, ext) == IF ext \in DOMAIN c THEN c[ext] ELSE toTransformer(ext)

\* The cache after getTransformer was called for every extension of exts.
CacheAfter(c, exts) ==
  [e \in DOMAIN c \cup exts |-> IF e \in DOMAIN c THEN c[e] ELSE toTransformer(e)]

RECURSIVE Substitute(_, _)
Substitute(template, contents) ==
  IF template = <<>> THEN <<>>
  ELSE (IF Head(template) = Placeholder THEN contents ELSE <<Head(template)>>)
       \o Substitute(Tail(template), contents)

\* transform.render(template, options, locals): the handlebars transformer
\* throws on a template it cannot parse, and otherwise puts locals.contents
\* where the template names it.
TransformThrows(template) == \E i \in DOMAIN template : template[i] = BadToken
TransformBody(template, options, locals) == Substitute(template, locals.contents)

\* is-utf8 on a payload.
isUtf8(contents) == \A i \in DOMAIN contents : contents[i] # BinaryToken

----------------------------------------------------------------------------
\* Errors, as the completion callback or a rejected promise carries them.

Err(kind, name) == [kind |-> kind, name |-> name]
NoError == Err("none", <<>>)
InvalidPattern == Err("invalid pattern", <<>>)
NoFiles == Err("no files to process", <<>>)
Circular(name) == Err("circular dependency found in", name)
CannotFindLayout(name) == Err("cannot find layout", name)
TypeError == Err("TypeError", <<>>)
TransformError == Err("transformer error", <<>>)
LoadError == Err("nested load error", <<>>)

----------------------------------------------------------------------------
\* Paths and glob patterns (path, multimatch).

RECURSIVE relative(_, _)
\* path.relative(from, to)
relative(from, to) ==
  IF from # <<>> /\ to # <<>> /\ Head(from) = Head(to)
  THEN relative(Tail(from), Tail(to))
  ELSE [i \in 1..Len(from) |-> ".."] \o to

\* relativePath.startsWith(`..${path.sep}`)
StartsWithDotDotSep(rel) == Len(rel) > 1 /\ rel[1] = ".."

IsPrefix(s, t) == Len(s) <= Len(t) /\ \A i \in 1..Len(s) : s[i] = t[i]

\* A glob: '<dir>/**' (deep, every extension), '<dir>/*.<ext>' (not deep).
Glob(neg, dir, deep, ext) == [neg |-> neg, dir |-> dir, deep |-> deep, ext |-> ext]
GlobAll == Glob(FALSE, <<>>, TRUE, "*")
GlobMd == Glob(FALSE, <<>>, FALSE, "md")

\* minimatch of one path against one glob, its '!' put aside.
GlobMatches(g, p) ==
  /\ IF g.deep THEN IsPrefix(g.dir, p.dir) ELSE g.dir = p.dir
  /\ g.ext = "*" \/ Last(p.base) = g.ext

RECURSIVE matchFrom(_, _, _)
matchFrom(list, patterns, ret) ==
  IF patterns = <<>> THEN ret
  ELSE LET g == Head(patterns)
           hits == SelectSeq(list, LAMBDA p : GlobMatches(g, p))
           next == IF g.neg
                   THEN SelectSeq(ret, LAMBDA p : ~GlobMatches(g, p))
                   ELSE ret \o SelectSeq(hits, LAMBDA p :
                                  \A i \in DOMAIN ret : ret[i] # p)
       IN matchFrom(list, Tail(patterns), next)

\* multimatch(list, patterns): each pattern in turn adds its matches to the
\* result, or, negated, takes them out of it.
match(list, patterns) == matchFrom(list, patterns, <<>>)

\* setLayoutsPrefix: the new value of the module-level layoutsPrefix.
setLayoutsPrefix(prefix, source, settings) ==
  LET relativePath == relative(source, settings.directory)
  IN IF ~StartsWithDotDotSep(relativePath) THEN relativePath ELSE prefix

----------------------------------------------------------------------------
\* Layout resolution and validation.

\* getLayout without its `=== false` test: a disabled layout falls back to
\* the default.
getLayoutIgnoresFalse(file, settings) ==
  IF Truthy(file.layout) THEN file.layout ELSE settings.default

getLayout(file, settings) ==
  IF Truthy(file.layout) \/ file.layout = False THEN file.layout
  ELSE settings.default

\* validate: whether a file should be processed.
validate(file, settings, c) ==
  LET layout == getLayout(file, settings)
  IN IF ~Truthy(layout) THEN FALSE
     ELSE IF ~IncludesDot(layout) THEN FALSE
     ELSE IF ~isUtf8(file.contents) THEN FALSE
     ELSE getTransformer(c, Extension(layout))

\* The extensions validate asks getTransformer for.
ValidateExts(fs, names, settings) ==
  {Extension(getLayout(fs[n], settings)) :
     n \in {m \in names : LET l == getLayout(fs[m], settings)
                          IN Truthy(l) /\ IncludesDot(l) /\ isUtf8(fs[m].contents)}}

----------------------------------------------------------------------------
\* The render engine.

\* A file record: its layout property, its payload, its other properties.
File(layout, contents, data) ==
  [layout |-> layout, contents |-> contents, data |-> data]

\* Object.assign({}, metadata, file, { contents }): the record's own
\* properties over the shared metadata, and its payload under 'contents'.
Locals(metadata, file) ==
  [data |-> Assign(metadata, file.data),
   layout |-> file.layout,
   contents |-> file.contents]

\* render, lines 332-359: the outcome of the promise executor for one file.
\* error is NoError when the promise resolves; contents is then the new
\* payload.  call is what the transformer was given, when it was reached.
render(file, collection, metadata, settings, c) ==
  LET layoutname == getLayout(file, settings)
      locals == Locals(metadata, file)
      none == [template |-> <<>>, locals |-> locals, reached |-> FALSE]
  IN IF layoutname.kind # "string"
     THEN [error |-> TypeError, contents |-> file.contents, call |-> none]
     ELSE IF layoutname.segs \notin DOMAIN collection
     THEN [error |-> CannotFindLayout(layoutname.segs),
           contents |-> file.contents, call |-> none]
     ELSE LET transform == getTransformer(c, Extension(layoutname))
              template == collection[layoutname.segs].contents
              call == [template |-> template, locals |-> locals, reached |-> TRUE]
          IN IF ~transform
             THEN [error |-> TypeError, contents |-> file.contents, call |-> none]
             ELSE IF TransformThrows(template)
             THEN [error |-> TransformError, contents |-> file.contents,
                   call |-> call]
             ELSE [error |-> NoError,
                   contents |-> TransformBody(template, settings.engineOptions, locals),
                   call |-> call]

----------------------------------------------------------------------------
\* The dependency tree builder, lines 404-439.  The symbol-keyed markers
\* of the records are kept as sets of names (seen, finished) and a map
\* from a parent's name to the list of its children.

EmptyTree ==
  [seen |-> {}, finished |-> {}, children |-> [n \in {} |-> <<>>],
   roots |-> <<>>, error |-> NoError]

\* parent[children] = [name] whether the parent has children or not.
PushChildOnly(children, parentname, name) ==
  [n \in DOMAIN children \cup {parentname} |->
     IF n = parentname THEN <<name>> ELSE children[n]]

\* parent[children].push(name), or parent[children] = [name]
PushChild(children, parentname, name) ==
  IF parentname \in DOMAIN children
  THEN [children EXCEPT ![parentname] = Append(@, name)]
  ELSE children @@ (parentname :> <<name>>)

RECURSIVE createLayoutTreeUnfinished(_, _, _)
\* createLayoutTree without the finished marker: a record that was placed
\* on behalf of a child is placed again when its own name is enumerated.
createLayoutTreeUnfinished(collection, name, t) ==
  IF name \notin DOMAIN collection THEN t
  ELSE IF name \in t.seen THEN [t EXCEPT !.error = Circular(name)]
  ELSE
    LET file == collection[name]
        marked == [t EXCEPT !.seen = @ \cup {name}]
        placed ==
          IF Truthy(file.layout)
          THEN LET parentname == file.layout.segs
                   up == createLayoutTreeUnfinished(collection, parentname, marked)
               IN IF up.error # NoError THEN up
                  ELSE IF parentname \notin DOMAIN collection
                  THEN [up EXCEPT !.error = TypeError]
                  ELSE [up EXCEPT !.children = PushChild(@, parentname, name)]
          ELSE [marked EXCEPT !.roots = Append(@, name)]
    IN IF placed.error # NoError THEN placed
       ELSE [placed EXCEPT !.finished = @ \cup {name}, !.seen = @ \ {name}]

RECURSIVE createLayoutTree(_, _, _)
\* createLayoutTree, lines 414-435.
createLayoutTree(collection, name, t) ==
  IF name \notin DOMAIN collection \/ name \in t.finished THEN t
  ELSE IF name \in t.seen THEN [t EXCEPT !.error = Circular(name)]
  ELSE
    LET file == collection[name]
        marked == [t EXCEPT !.seen = @ \cup {name}]
        placed ==
          IF Truthy(file.layout)
          THEN LET parentname == file.layout.segs
                   up == createLayoutTree(collection, parentname, marked)
               IN IF up.error # NoError THEN up
                  ELSE IF parentname \notin DOMAIN collection
                  THEN [up EXCEPT !.error = TypeError]
                  ELSE [up EXCEPT !.children = PushChild(@, parentname, name)]
          ELSE [marked EXCEPT !.roots = Append(@, name)]
    IN IF placed.error # NoError THEN placed
       ELSE [placed EXCEPT !.finished = @ \cup {name}, !.seen = @ \ {name}]

RECURSIVE createLayoutTrees(_, _, _)
\* Object.keys(collection).forEach(createLayoutTree): a throw ends the loop.
createLayoutTrees(collection, keys, t) ==
  IF keys = <<>> \/ t.error # NoError THEN t
  ELSE createLayoutTrees(collection, Tail(keys),
                         createLayoutTree(collection, Head(keys), t))

RECURSIVE renderLayoutsOneLevel(_, _)
\* renderLayouts without its recursive call: only the children of the roots.
renderLayoutsOneLevel(children, parentlevel) ==
  IF parentlevel = <<>> THEN <<>>
  ELSE (IF Head(parentlevel) \in DOMAIN children
        THEN <<children[Head(parentlevel)]>> ELSE <<>>)
       \o renderLayoutsOneLevel(children, Tail(parentlevel))

RECURSIVE renderLayoutsChildrenFirst(_, _)
\* renderLayouts with the recursive call ahead of the chaining: the renders
\* of a layout's children are chained before the layout's own.
renderLayoutsChildrenFirst(children, parentlevel) ==
  IF parentlevel = <<>> THEN <<>>
  ELSE LET parent == Head(parentlevel)
           own == IF parent \in DOMAIN children
                  THEN renderLayoutsChildrenFirst(children, children[parent])
                       \o <<children[parent]>>
                  ELSE <<>>
       IN own \o renderLayoutsChildrenFirst(children, Tail(parentlevel))

RECURSIVE renderLayouts(_, _)
\* renderLayouts, lines 443-464: the groups of sibling layouts, in the order
\* in which their renders are chained onto tasks.
renderLayouts(children, parentlevel) ==
  IF parentlevel = <<>> THEN <<>>
  ELSE LET parent == Head(parentlevel)
           own == IF parent \in DOMAIN children
                  THEN <<children[parent]>> \o renderLayouts(children, children[parent])
                  ELSE <<>>
       IN own \o renderLayouts(children, Tail(parentlevel))

----------------------------------------------------------------------------
\* The state of one build.

VARIABLES
  settings,       \* the options merged over the defaults
  files,          \* the host's file mapping: path -> record
  keyOrder,       \* the order in which the layout files are enumerated
  disk,           \* the layout directory, as a nested load reads it
  layoutsPrefix,  \* module-level: the layout directory relative to the source
  cache,          \* module-level: extension -> transformer handle or false
  pc,             \* which handler runs next
  validFiles,     \* the Content Set, in order
  collection,     \* the layout collection of this pass: name -> record
  shared,         \* the collection's records are records of the host mapping
  tree,           \* the markers on the records, and the roots
  tasks,          \* the groups of layout renders still chained on tasks
  rejection,      \* the error the promise chain was rejected with
  callbacks,      \* what the completion callback was called with, in order
  thrown,         \* an exception that left the plugin or a callback uncaught
  unhandled,      \* rejections nothing handles
  log,            \* the renders started so far, in order
  before,         \* the host mapping when the pass started
  loaded,         \* the collection when the pass obtained it
  passes          \* the passes this process has finished, in order

vars ==
  <<settings, files, keyOrder, disk, layoutsPrefix, cache, pc, validFiles,
    collection, shared, tree, tasks, rejection, callbacks, thrown, unhandled,
    log, before, loaded, passes>>

\* The pattern option: a string, an array of strings, or anything else.
PatternString == [kind |-> "string", globs |-> <<GlobAll>>]
PatternArray == [kind |-> "array", globs |-> <<GlobMd>>]
PatternOther == [kind |-> "other", globs |-> <<>>]

Settings(pattern, directory, default) ==
  [pattern |-> pattern, directory |-> directory, default |-> default,
   engineOptions |-> NoData]

\* Object.keys(files): the content files, then the layout files.
HostKeys == <<IndexPath, PostPath>> \o [i \in 1..Len(keyOrder) |-> LayoutPath(keyOrder[i])]

\* Whether a host path lies under the layout prefix (join(prefix, '**/*')).
UnderPrefix(prefix, p) == GlobMatches(Glob(FALSE, prefix, TRUE, "*"), p)

\* getCollection, lines 287-298: the host's records under the prefix, keyed
\* by base name.
getCollection(fs, keys, prefix) ==
  LET matchedFilenames == match(keys, <<Glob(FALSE, prefix, TRUE, "*")>>)
      names == {matchedFilenames[i].base : i \in DOMAIN matchedFilenames}
  IN [n \in names |->
        fs[CHOOSE p \in DOMAIN fs : p.base = n /\ UnderPrefix(prefix, p)]]

\* Object.keys(collection)
CollectionKeys(coll) == SelectSeq(keyOrder, LAMBDA n : n \in DOMAIN coll)

\* The host mapping after the collection's records changed to coll.
Written(fs, coll, isShared, prefix) ==
  [p \in DOMAIN fs |->
     IF isShared /\ UnderPrefix(prefix, p) /\ p.base \in DOMAIN coll
     THEN coll[p.base] ELSE fs[p]]

----------------------------------------------------------------------------
\* The initial states: a layout directory of MaxLayouts layouts with every
\* parent relation over them, and two content files.

LayoutRefs == {Undefined} \cup {Str(n) : n \in LayoutNames \cup {Missing}}
Graphs == [LayoutIds -> LayoutRefs]
Chain == [i \in LayoutIds |-> IF i = 1 THEN Undefined ELSE Str(LayoutName(i - 1))]

Ascending == [i \in LayoutIds |-> LayoutName(i)]
Descending == [i \in LayoutIds |-> LayoutName(MaxLayouts + 1 - i)]
KeyOrders == {Ascending, Descending}

LayoutContents(i, bad) ==
  <<LayoutBases[i]>> \o (IF bad /\ i = 1 THEN <<BadToken>> ELSE <<>>) \o <<Placeholder>>

LayoutFiles(graph, bad) ==
  [n \in LayoutNames |->
     LET i == CHOOSE j \in LayoutIds : LayoutName(j) = n
     IN File(graph[i], LayoutContents(i, bad), LayoutData(i))]

ContentRefs ==
  {Undefined, False, EmptyStr, Str(LayoutName(1)), Str(LayoutName(MaxLayouts)),
   Str(<<"base">>), Str(<<"page", "xyz">>), Str(Missing)}

HostFiles(layouts, indexLayout, indexContents, postLayout) ==
  [p \in ContentPaths \cup LayoutPaths |->
     IF p = IndexPath THEN File(indexLayout, indexContents, ContentData(p))
     ELSE IF p = PostPath THEN File(postLayout, <<"post">>, ContentData(p))
     ELSE layouts[p.base]]

InitWith(s, graph, order, bad, indexLayout, indexContents, postLayout) ==
  /\ settings = s
  /\ keyOrder = order
  /\ disk = LayoutFiles(graph, bad)
  /\ files = HostFiles(LayoutFiles(graph, bad), indexLayout, indexContents, postLayout)
  /\ before = HostFiles(LayoutFiles(graph, bad), indexLayout, indexContents, postLayout)
  /\ layoutsPrefix = <<>>
  /\ cache = [e \in {} |-> FALSE]
  /\ pc = "start"
  /\ validFiles = <<>>
  /\ collection = [n \in {} |-> File(Undefined, <<>>, NoData)]
  /\ loaded = [n \in {} |-> File(Undefined, <<>>, NoData)]
  /\ shared = FALSE
  /\ tree = EmptyTree
  /\ tasks = <<>>
  /\ rejection = NoError
  /\ callbacks = <<>>
  /\ thrown = NoError
  /\ unhandled = <<>>
  /\ log = <<>>
  /\ passes = <<>>

\* Every layout graph, under a few settings and content files.
InitGraphs ==
  \E graph \in Graphs, order \in KeyOrders, bad \in BOOLEAN,
     pattern \in {PatternString, PatternOther},
     directory \in {DirInside, DirOutside},
     indexLayout \in {Str(LayoutName(1)), Str(Missing), Undefined} :
    InitWith(Settings(pattern, directory, Undefined), graph, order, bad,
             indexLayout, <<"index">>,
             IF indexLayout = Undefined THEN Undefined
             ELSE Str(LayoutName(MaxLayouts)))

\* Every pair of content files, under a chain of layouts.
InitContents ==
  \E pattern \in {PatternString, PatternArray},
     default \in {Undefined, Str(LayoutName(1))},
     indexLayout \in ContentRefs, postLayout \in ContentRefs,
     indexContents \in {<<"index">>, <<BinaryToken>>} :
    InitWith(Settings(pattern, DirInside, default), Chain, Ascending, FALSE,
             indexLayout, indexContents, postLayout)

Init == InitGraphs \/ InitContents

\* Every enumeration order of the layout files, over every layout graph.
Orders == {o \in [LayoutIds -> LayoutNames] : \A i, j \in LayoutIds : o[i] = o[j] => i = j}

InitOrders ==
  \E graph \in Graphs, order \in Orders, directory \in {DirInside, DirOutside} :
    /\ directory = DirOutside => graph = Chain
    /\ InitWith(Settings(PatternString, directory, Undefined), graph, order, FALSE,
                Str(LayoutName(1)), <<"index">>, Str(LayoutName(MaxLayouts)))

\* A larger layout directory: LevelLayouts layouts in every forest in which
\* a layout's parent comes before it in the alphabet.
LevelIds == 1..LevelLayouts
LevelNames == {LayoutName(i) : i \in LevelIds}
LevelGraphs ==
  {g \in [LevelIds -> {Undefined} \cup {Str(n) : n \in LevelNames}] :
     \A i \in LevelIds :
       g[i] = Undefined \/ \E j \in 1..(i - 1) : g[i] = Str(LayoutName(j))}

LevelFiles(graph, bad) ==
  [n \in LevelNames |->
     LET i == CHOOSE j \in LevelIds : LayoutName(j) = n
     IN File(graph[i], LayoutContents(i, bad), LayoutData(i))]

LevelHostFiles(layouts) ==
  [p \in ContentPaths \cup {LayoutPath(n) : n \in LevelNames} |->
     IF p = IndexPath
     THEN File(Str(LayoutName(1)), <<"index">>, ContentData(p))
     ELSE IF p = PostPath
     THEN File(Str(LayoutName(LevelLayouts)), <<"post">>, ContentData(p))
     ELSE layouts[p.base]]

InitLevels ==
  \E graph \in LevelGraphs, bad \in BOOLEAN, up \in BOOLEAN,
     directory \in {DirInside, DirOutside} :
    /\ settings = Settings(PatternString, directory, Undefined)
    /\ keyOrder = [i \in LevelIds |->
                     LayoutName(IF up THEN i ELSE LevelLayouts + 1 - i)]
    /\ disk = LevelFiles(graph, bad)
    /\ files = LevelHostFiles(LevelFiles(graph, bad))
    /\ before = LevelHostFiles(LevelFiles(graph, bad))
    /\ layoutsPrefix = <<>>
    /\ cache = [e \in {} |-> FALSE]
    /\ pc = "start"
    /\ validFiles = <<>>
    /\ collection = [n \in {} |-> File(Undefined, <<>>, NoData)]
    /\ loaded = [n \in {} |-> File(Undefined, <<>>, NoData)]
    /\ shared = FALSE
    /\ tree = EmptyTree
    /\ tasks = <<>>
    /\ rejection = NoError
    /\ callbacks = <<>>
    /\ thrown = NoError
    /\ unhandled = <<>>
    /\ log = <<>>
    /\ passes = <<>>

----------------------------------------------------------------------------
\* Promise.all(names.map(name => render(...))): every executor runs, in
\* order, on the records as the earlier ones left them.

LogEntry(node, isLayout, r) ==
  [node |-> node, isLayout |-> isLayout, error |-> r.error,
   template |-> r.call.template, locals |-> r.call.locals,
   reached |-> r.call.reached]

RECURSIVE renderAll(_, _, _, _)
\* fs: the mapping the files are taken from and written to; coll: the layout
\* collection (fs itself when layouts are rendered); acc: the entries so far.
renderAll(names, fs, coll, acc) ==
  IF names = <<>> THEN [fs |-> fs, entries |-> acc]
  ELSE LET name == Head(names)
           r == render(fs[name], coll, Metadata, settings, cache)
           written == IF r.error = NoError
                      THEN [fs EXCEPT ![name].contents = r.contents]
                      ELSE fs
       IN renderAll(Tail(names), written, coll,
                    Append(acc, [name |-> name, r |-> r]))

\* The layouts of one group: files and collection are the same mapping.
RECURSIVE renderGroup(_, _, _)
renderGroup(names, coll, acc) ==
  IF names = <<>> THEN [fs |-> coll, entries |-> acc]
  ELSE LET name == Head(names)
           r == render(coll[name], coll, Metadata, settings, cache)
           written == IF r.error = NoError
                      THEN [coll EXCEPT ![name].contents = r.contents]
                      ELSE coll
       IN renderGroup(Tail(names), written, Append(acc, [name |-> name, r |-> r]))

\* The errors of the rejected promises, in order.
Errors(entries) ==
  LET failed == SelectSeq(entries, LAMBDA e : e.r.error # NoError)
  IN [i \in 1..Len(failed) |-> failed[i].r.error]

\* The extensions render asks getTransformer for.
RenderExts(entries, fs) ==
  {Extension(getLayout(fs[entries[i].name], settings)) :
     i \in {j \in DOMAIN entries :
              getLayout(fs[entries[j].name], settings).kind = "string"}}

----------------------------------------------------------------------------
\* The handlers.

\* The chain with the content renders ahead of renderNestedLayouts.
ChainContentsFirst(step) ==
  IF step = "getCollection" THEN "contents"
  ELSE IF step = "contents" THEN "layouts"
  ELSE "finishing"

\* The promise chain of lines 529-539: what runs once a step has resolved.
ChainNext(step) ==
  IF step = "getCollection" THEN "layouts"
  ELSE IF step = "renderNestedLayouts" THEN "contents"
  ELSE "finishing"

\* The plugin function, lines 487-529, up to the call of getCollection.
Plugin ==
  /\ pc = "start"
  /\ LET prefix == setLayoutsPrefix(layoutsPrefix, SourceRoot, settings)
         valid == settings.pattern.kind \in {"string", "array"}
         pattern == settings.pattern.globs \o <<Glob(TRUE, prefix, TRUE, "*")>>
         matchedFiles == match(HostKeys, pattern)
         valids == SelectSeq(matchedFiles, LAMBDA p : validate(files[p], settings, cache))
         names == {matchedFiles[i] : i \in DOMAIN matchedFiles}
     IN /\ layoutsPrefix' = prefix
        /\ IF ~valid
           THEN \* done(error), and then pattern.push on undefined throws
                /\ callbacks' = Append(callbacks, InvalidPattern)
                /\ thrown' = TypeError
                /\ pc' = "thrown"
                /\ UNCHANGED <<validFiles, cache, collection, loaded, shared>>
           ELSE /\ validFiles' = valids
                /\ cache' = CacheAfter(cache, ValidateExts(files, names, settings))
                /\ callbacks' = IF valids = <<>> THEN Append(callbacks, NoFiles)
                                ELSE callbacks
                /\ thrown' = thrown
                /\ IF prefix # <<>>
                   THEN /\ collection' = getCollection(files, HostKeys, prefix)
                        /\ loaded' = getCollection(files, HostKeys, prefix)
                        /\ shared' = TRUE
                        /\ pc' = ChainNext("getCollection")
                   ELSE /\ pc' = "loading"
                        /\ UNCHANGED <<collection, loaded, shared>>
  /\ UNCHANGED <<passes, settings, files, keyOrder, disk, tree, tasks, rejection,
                 unhandled, log, before>>

\* The nested Metalsmith's process callback, lines 305-309, without error.
NestedLoadOk ==
  /\ pc = "loading"
  /\ collection' = disk
  /\ loaded' = disk
  /\ shared' = FALSE
  /\ pc' = ChainNext("getCollection")
  /\ UNCHANGED <<passes, settings, files, keyOrder, disk, layoutsPrefix, cache,
                 validFiles, tree, tasks, rejection, callbacks, thrown,
                 unhandled, log, before>>

\* The same callback with an error: it throws, and nothing settles the
\* promise.
NestedLoadErr ==
  /\ pc = "loading"
  /\ thrown' = LoadError
  /\ pc' = "pending"
  /\ UNCHANGED <<passes, settings, files, keyOrder, disk, layoutsPrefix, cache,
                 validFiles, collection, loaded, shared, tree, tasks,
                 rejection, callbacks, unhandled, log, before>>

\* renderNestedLayouts, lines 404-480, called from line 531: the tree is
\* built and the renders are chained, none has run.
RenderNestedLayouts ==
  /\ pc = "layouts"
  /\ LET t == createLayoutTrees(collection, CollectionKeys(collection), EmptyTree)
     IN /\ tree' = t
        /\ IF t.error # NoError
           THEN /\ rejection' = t.error
                /\ pc' = "rejected"
                /\ tasks' = tasks
           ELSE /\ tasks' = renderLayouts(t.children, t.roots)
                /\ pc' = "tasks"
                /\ rejection' = rejection
  /\ UNCHANGED <<passes, settings, files, keyOrder, disk, layoutsPrefix, cache,
                 validFiles, collection, loaded, shared, callbacks, thrown,
                 unhandled, log, before>>

\* One callback of lines 447-460: the renders of the children of one layout.
RenderChildren ==
  /\ pc = "tasks"
  /\ tasks # <<>>
  /\ LET out == renderGroup(Head(tasks), collection, <<>>)
         errors == Errors(out.entries)
     IN /\ collection' = out.fs
        /\ files' = Written(files, out.fs, shared, layoutsPrefix)
        /\ log' = log \o [i \in 1..Len(out.entries) |->
                            LogEntry(LayoutPath(out.entries[i].name), TRUE,
                                     out.entries[i].r)]
        /\ cache' = CacheAfter(cache, RenderExts(out.entries, collection))
        /\ IF errors # <<>>
           THEN /\ rejection' = Head(errors)
                /\ pc' = "rejected"
                /\ tasks' = tasks
           ELSE /\ tasks' = Tail(tasks)
                /\ UNCHANGED <<rejection, pc>>
  /\ UNCHANGED <<passes, settings, keyOrder, disk, layoutsPrefix, validFiles, loaded,
                 shared, tree, callbacks, thrown, unhandled, before>>

\* The clean up without its `delete file.layout`.
CleanUpMarkersOnly ==
  /\ pc = "tasks"
  /\ tasks = <<>>
  /\ tree' = [tree EXCEPT !.children = EmptyTree.children, !.finished = {}]
  /\ pc' = ChainNext("renderNestedLayouts")
  /\ UNCHANGED <<passes, settings, files, keyOrder, disk, layoutsPrefix, cache,
                 validFiles, collection, loaded, shared, tasks, rejection,
                 callbacks, thrown, unhandled, log, before>>

\* The clean up of lines 468-478, the last callback on tasks.
CleanUp ==
  /\ pc = "tasks"
  /\ tasks = <<>>
  /\ LET cleaned == [n \in DOMAIN collection |->
                       [collection[n] EXCEPT !.layout = Undefined]]
     IN /\ collection' = cleaned
        /\ files' = Written(files, cleaned, shared, layoutsPrefix)
  /\ tree' = [tree EXCEPT !.children = EmptyTree.children, !.finished = {}]
  /\ pc' = ChainNext("renderNestedLayouts")
  /\ UNCHANGED <<passes, settings, keyOrder, disk, layoutsPrefix, cache, validFiles,
                 loaded, shared, tasks, rejection, callbacks, thrown,
                 unhandled, log, before>>

\* The content renders over the two content files, validated or not.
RenderContentsUnvalidated ==
  /\ pc = "contents"
  /\ LET out == renderAll(<<IndexPath, PostPath>>, files, collection, <<>>)
         errors == Errors(out.entries)
     IN /\ files' = out.fs
        /\ log' = log \o [i \in 1..Len(out.entries) |->
                            LogEntry(out.entries[i].name, FALSE, out.entries[i].r)]
        /\ cache' = CacheAfter(cache, RenderExts(out.entries, files))
        /\ unhandled' = IF errors # <<>> THEN Append(unhandled, Head(errors))
                        ELSE unhandled
  /\ pc' = ChainNext("contents")
  /\ UNCHANGED <<passes, settings, keyOrder, disk, layoutsPrefix, validFiles,
                 collection, loaded, shared, tree, tasks, rejection, callbacks,
                 thrown, before>>

\* The callback of lines 533-537: the content renders run, and the promise
\* of Promise.all is dropped, so a rejection of it is handled by nothing.
RenderContents ==
  /\ pc = "contents"
  /\ LET out == renderAll(validFiles, files, collection, <<>>)
         errors == Errors(out.entries)
     IN /\ files' = out.fs
        /\ log' = log \o [i \in 1..Len(out.entries) |->
                            LogEntry(out.entries[i].name, FALSE, out.entries[i].r)]
        /\ cache' = CacheAfter(cache, RenderExts(out.entries, files))
        /\ unhandled' = IF errors # <<>> THEN Append(unhandled, Head(errors))
                        ELSE unhandled
  /\ pc' = ChainNext("contents")
  /\ UNCHANGED <<passes, settings, keyOrder, disk, layoutsPrefix, validFiles,
                 collection, loaded, shared, tree, tasks, rejection, callbacks,
                 thrown, before>>

\* Line 538: done().
Done ==
  /\ pc = "finishing"
  /\ callbacks' = Append(callbacks, NoError)
  /\ pc' = "end"
  /\ UNCHANGED <<passes, settings, files, keyOrder, disk, layoutsPrefix, cache,
                 validFiles, collection, loaded, shared, tree, tasks,
                 rejection, thrown, unhandled, log, before>>

\* Line 539: done(error).
Catch ==
  /\ pc = "rejected"
  /\ callbacks' = Append(callbacks, rejection)
  /\ pc' = "end"
  /\ UNCHANGED <<passes, settings, files, keyOrder, disk, layoutsPrefix, cache,
                 validFiles, collection, loaded, shared, tree, tasks,
                 rejection, thrown, unhandled, log, before>>

Next ==
  \/ Plugin
  \/ NestedLoadOk
  \/ NestedLoadErr
  \/ RenderNestedLayouts
  \/ RenderChildren
  \/ CleanUp
  \/ RenderContents
  \/ Done
  \/ Catch

Spec == Init /\ [][Next]_vars

\* The promise chain runs to its end: every callback that is ready runs.
FairSpec == Spec /\ WF_vars(Next)

\* A further invocation of the plugin in the same process, on the mapping
\* the last pass left, by a plugin instance with either directory option:
\* layoutsPrefix and the transformer cache are the module's and stay, all
\* else is the invocation's own.
NextPass ==
  /\ pc = "end"
  /\ Len(passes) + 1 < MaxPasses
  /\ \E directory \in {DirInside, DirOutside} :
       settings' = [settings EXCEPT !.directory = directory]
  /\ passes' = Append(passes,
                      [callbacks |-> callbacks, shared |-> shared,
                       rendered |-> {log[i].node : i \in DOMAIN log}])
  /\ before' = files
  /\ pc' = "start"
  /\ validFiles' = <<>>
  /\ collection' = [n \in {} |-> File(Undefined, <<>>, NoData)]
  /\ loaded' = [n \in {} |-> File(Undefined, <<>>, NoData)]
  /\ shared' = FALSE
  /\ tree' = EmptyTree
  /\ tasks' = <<>>
  /\ rejection' = NoError
  /\ callbacks' = <<>>
  /\ thrown' = NoError
  /\ unhandled' = <<>>
  /\ log' = <<>>
  /\ UNCHANGED <<files, keyOrder, disk, layoutsPrefix, cache>>

NextPasses ==
  \/ Plugin
  \/ NestedLoadOk
  \/ NestedLoadErr
  \/ RenderNestedLayouts
  \/ RenderChildren
  \/ CleanUp
  \/ RenderContents
  \/ Done
  \/ Catch
  \/ NextPass

\* The first pass of a process: every layout graph, either directory.
InitPasses ==
  \E graph \in Graphs, bad \in BOOLEAN, directory \in {DirInside, DirOutside} :
    InitWith(Settings(PatternString, directory, Undefined), graph, Ascending, bad,
             Str(LayoutName(1)), <<"index">>, Str(LayoutName(MaxLayouts)))

\* Passes run one after the other in the same process.
SpecPasses == InitPasses /\ [][NextPasses]_vars

\* The same handlers over every enumeration order of the layout files.
SpecOrders == InitOrders /\ [][Next]_vars

\* The same handlers over the larger layout directory.
SpecLevels == InitLevels /\ [][Next]_vars

----------------------------------------------------------------------------
\* Vocabulary of the properties.

ValidPattern == settings.pattern.kind \in {"string", "array"}

\* The parent a layout record names, in the collection as it was obtained.
HasParent(coll, n) == Truthy(coll[n].layout)
ParentName(coll, n) == coll[n].layout.segs

RECURSIVE Up(_, _, _)
\* The k-th ancestor of n, or <<>> where the chain ends before it.
Up(coll, n, k) ==
  IF k = 0 THEN n
  ELSE IF n \in DOMAIN coll /\ HasParent(coll, n)
       THEN Up(coll, ParentName(coll, n), k - 1)
       ELSE <<>>

OnCycle(coll, n) == \E k \in 1..Cardinality(DOMAIN coll) : Up(coll, n, k) = n
HasCycle(coll) == \E n \in DOMAIN coll : OnCycle(coll, n)
Resolves(coll) ==
  \A n \in DOMAIN coll : HasParent(coll, n) => ParentName(coll, n) \in DOMAIN coll
HasTransformers(coll) ==
  \A n \in DOMAIN coll :
    HasParent(coll, n) => IncludesDot(coll[n].layout)
                          /\ toTransformer(Extension(coll[n].layout))
Forest(coll) == Resolves(coll) /\ ~HasCycle(coll) /\ HasTransformers(coll)

NonRoots(coll) == {n \in DOMAIN coll : HasParent(coll, n)}

\* The transformer throws on no payload of the build.
Parses(coll) == \A n \in DOMAIN coll : ~TransformThrows(coll[n].contents)

ValidSet == {validFiles[i] : i \in DOMAIN validFiles}
CallbackSet == {callbacks[i] : i \in DOMAIN callbacks}

\* The pass is over: nothing more of it will run.
Over == pc \in {"end", "thrown", "pending"}

\* Every payload is what it was when the pass started.
NothingRendered ==
  /\ log = <<>>
  /\ \A p \in DOMAIN files : files[p].contents = before[p].contents
  /\ \A n \in DOMAIN collection : collection[n].contents = loaded[n].contents

\* The outcome of the successful render of a node, from what it was given.
Output(entry) == TransformBody(entry.template, settings.engineOptions, entry.locals)

----------------------------------------------------------------------------
\* C1: with a layout collection that is a forest (no cycle, every layout
\* reference of a layout or of an eligible content file names an entry,
\* every extension has a transformer, every payload is a template the
\* transformer accepts) and at least one eligible content file, the pass
\* runs to its end, the completion callback is called once, with success,
\* every non-root layout ends as the transformer's output for its parent's
\* final payload and its own payload before the pass, and every eligible
\* content file ends as the output for its layout's final payload and its
\* own payload before the pass.  (At each of the other values of pc the
\* formula allows, a handler is ready whose guard is that value alone.)
C1_Pre ==
  /\ validFiles # <<>>
  /\ Forest(loaded)
  /\ Parses(loaded)
  /\ \A p \in ValidSet : getLayout(before[p], settings).segs \in DOMAIN loaded

C2_ParentRenderedFirst ==
  \A i \in DOMAIN log :
    log[i].isLayout =>
      LET n == log[i].node.base
          parent == ParentName(loaded, n)
      IN (parent \in DOMAIN loaded /\ HasParent(loaded, parent)) =>
           \E j \in 1..(i - 1) :
             /\ log[j].node = LayoutPath(parent)
             /\ log[j].error = NoError
             /\ log[i].reached => log[i].template = Output(log[j])

\* A layout two levels below a root has been rendered.
C2_Witness ==
  \E i \in DOMAIN log :
    /\ log[i].isLayout
    /\ log[i].error = NoError
    /\ ParentName(loaded, log[i].node.base) \in NonRoots(loaded)

\* C3: a content file's render starts only when no layout render is left
\* on the chain, every non-root layout has been rendered and the clean up
\* has run; no layout render follows it.
C3_ContentsAfterLayouts ==
  \A i \in DOMAIN log :
    ~log[i].isLayout =>
      /\ tasks = <<>>
      /\ tree.finished = {} /\ DOMAIN tree.children = {}
      /\ \A n \in DOMAIN collection : collection[n].layout = Undefined
      /\ \A n \in NonRoots(loaded) :
           \E j \in 1..(i - 1) :
             log[j].isLayout /\ log[j].node = LayoutPath(n) /\ log[j].error = NoError
      /\ \A j \in DOMAIN log : j > i => ~log[j].isLayout

\* A content file has been rendered in a pass that rendered two layouts.
C3_Witness ==
  /\ \E i \in DOMAIN log : ~log[i].isLayout
  /\ Cardinality({i \in DOMAIN log : log[i].isLayout}) >= 2

\* C4 (as claimed): with a cycle in the layout collection the pass ends with
\* the completion callback given a circular-dependency error that names a
\* layout on the cycle, and nothing is rendered at any moment of the pass.
C4_CycleIsReported ==
  HasCycle(loaded) =>
    /\ NothingRendered
    /\ pc = "end" =>
         \E e \in CallbackSet :
           e.kind = Circular(<<>>).kind /\ OnCycle(loaded, e.name)

\* C5 (as claimed): the completion callback is called exactly once in a
\* pass: never twice, and once when the pass is over.
C5_CallbackOnce ==
  /\ Len(callbacks) <= 1
  /\ Over => Len(callbacks) = 1

\* C6 (as claimed): when the render of an eligible content file fails, the
\* completion callback is given that error and is never called with
\* success.
C6_ContentFailureIsReported ==
  (pc = "end" /\ \E i \in DOMAIN log : ~log[i].isLayout /\ log[i].error # NoError) =>
    /\ \E i \in DOMAIN log :
         ~log[i].isLayout /\ log[i].error # NoError /\ log[i].error \in CallbackSet
    /\ NoError \notin CallbackSet

\* C7 (as claimed): when no content file qualifies, the completion callback
\* is given the 'no files to process' error and nothing is rendered,
\* before or after the report.
C7_NoFilesNoRender ==
  (ValidPattern /\ pc # "start" /\ validFiles = <<>>) =>
    /\ NoFiles \in CallbackSet
    /\ NothingRendered

\* C8 (as claimed): with a pattern that is neither a string nor an array the
\* pass reports the invalid-pattern error and stops there: nothing is
\* matched or rendered, no exception leaves the plugin, no further callback.
C8_InvalidPatternStops ==
  (~ValidPattern /\ pc # "start") =>
    /\ callbacks = <<InvalidPattern>>
    /\ thrown = NoError
    /\ validFiles = <<>>
    /\ NothingRendered

\* The files the pattern option selects, whatever the plugin adds to it.
MatchesPattern(p) ==
  \E i \in DOMAIN settings.pattern.globs : GlobMatches(settings.pattern.globs[i], p)

\* The layout a record resolves to: its own layout property when that is
\* truthy or false, otherwise the configured default.
Resolved(file) ==
  IF file.layout = False THEN False
  ELSE IF file.layout.kind = "string" /\ file.layout.segs # <<"">> THEN file.layout
  ELSE settings.default

\* The checks of the Content Set on one record.
Qualifies(file) ==
  LET layout == Resolved(file)
  IN /\ layout.kind = "string" /\ layout.segs # <<"">>
     /\ Len(layout.segs) >= 2
     /\ \A i \in DOMAIN file.contents : file.contents[i] # BinaryToken
     /\ layout.segs[Len(layout.segs)] \in {"hbs", "handlebars"}

Keys == {"a", "b", "c"}
Value(data, k) == IF k \in DOMAIN data THEN data[k] ELSE "undefined"

RECURSIVE Inherited(_, _, _, _)
\* The value of k in the nearest layout of the chain that starts at ref and
\* defines k, else in the shared metadata.
Inherited(coll, ref, k, fuel) ==
  IF fuel = 0 \/ ~Truthy(ref) \/ ref.segs \notin DOMAIN coll
  THEN Value(Metadata, k)
  ELSE IF k \in DOMAIN coll[ref.segs].data THEN coll[ref.segs].data[k]
  ELSE Inherited(coll, coll[ref.segs].layout, k, fuel - 1)

\* The record a render of the log was started for, as the pass found it.
Node(entry) ==
  IF entry.isLayout THEN loaded[entry.node.base] ELSE before[entry.node]

\* C10 (as claimed): in the context a node is rendered with, a key holds the
\* node's own value when the node defines it, otherwise the value of the
\* nearest layout of its ancestor chain that defines it, otherwise the
\* shared metadata's; 'contents' holds the node's payload.
C10_ContextPrecedence ==
  \A i \in DOMAIN log :
    log[i].reached =>
      /\ log[i].locals.contents = Node(log[i]).contents
      /\ \A k \in Keys :
           Value(log[i].locals.data, k) =
             IF k \in DOMAIN Node(log[i]).data THEN Node(log[i]).data[k]
             ELSE Inherited(loaded, getLayout(Node(log[i]), settings), k,
                            Cardinality(DOMAIN loaded))

\* The layout a render of the log took its template from.
TemplateOf(entry) == getLayout(Node(entry), settings).segs

\* The renders of the log that rewrote the payload of layout n.
Rewrites(n) ==
  {i \in DOMAIN log :
     log[i].isLayout /\ log[i].node = LayoutPath(n) /\ log[i].error = NoError}

\* C11: in a pass the payload of a layout record is rewritten at most once
\* (it is the payload the pass found, or what its one render wrote), and
\* once a child layout or a content file has read it as its template it is
\* not rewritten: no later render of the log is a render of that layout,
\* and the record still holds the template that was read.
C11_LayoutRenderedOnce ==
  /\ \A n \in DOMAIN collection :
       /\ Cardinality(Rewrites(n)) <= 1
       /\ collection[n].contents =
            IF Rewrites(n) = {} THEN loaded[n].contents
            ELSE Output(log[CHOOSE i \in Rewrites(n) : TRUE])
  /\ \A j \in DOMAIN log :
       log[j].reached =>
         /\ \A i \in Rewrites(TemplateOf(log[j])) : i < j
         /\ collection[TemplateOf(log[j])].contents = log[j].template

\* A layout was rewritten, then read as the template of a child layout and
\* of a content file, and the pass has ended.
C11_Witness ==
  /\ pc = "end"
  /\ \E n \in DOMAIN collection :
       /\ Rewrites(n) # {}
       /\ \E j, k \in DOMAIN log :
            /\ log[j].reached /\ log[j].isLayout /\ TemplateOf(log[j]) = n
            /\ log[k].reached /\ ~log[k].isLayout /\ TemplateOf(log[k]) = n

\* The pass ended with the completion callback called without an error.
Succeeded == pc = "end" /\ NoError \in CallbackSet

\* C12: when a pass has ended with success, no record of the layout
\* collection has a layout reference, none is marked being-visited or
\* finished, none has a children list; where the records are the host's,
\* the host's layout files have no layout reference either.
C12_CleanAfterSuccess ==
  Succeeded =>
    /\ \A n \in DOMAIN collection : collection[n].layout = Undefined
    /\ tree.seen = {} /\ tree.finished = {} /\ DOMAIN tree.children = {}
    /\ shared => \A p \in DOMAIN files :
                   UnderPrefix(layoutsPrefix, p) => files[p].layout = Undefined

\* A pass over host layouts of which two named a parent ended with success.
C12_Witness ==
  /\ Succeeded
  /\ shared
  /\ Cardinality(NonRoots(loaded)) >= 2
  /\ \E i \in DOMAIN log : log[i].isLayout

\* The pass has obtained its layout collection.
HasCollection ==
  pc \in {"layouts", "tasks", "contents", "finishing", "rejected", "end"}

\* C13 (as claimed): a content file whose non-empty layout reference names
\* no entry of the layout collection is not in the Content Set, and no
\* render of it is started.
C13_UnresolvedIsRejected ==
  HasCollection =>
    \A p \in ContentPaths :
      (Truthy(before[p].layout) /\ before[p].layout.segs \notin DOMAIN loaded) =>
        /\ p \notin ValidSet
        /\ \A i \in DOMAIN log : log[i].node # p

UnderLayoutDirectory(p) ==
  LET dir == relative(SourceRoot, settings.directory)
  IN ~StartsWithDotDotSep(dir) /\ IsPrefix(dir, p.dir)

\* C18 (as claimed): the files the pass validates are the files that match
\* the pattern and do not fall under the layout directory, so that with a
\* layout directory outside the source root every file that matches the
\* pattern and passes the checks is in the Content Set.
C18_ExclusionIsLayoutDirectory ==
  (ValidPattern /\ pc # "start") =>
    ValidSet = {p \in DOMAIN before :
                  /\ MatchesPattern(p)
                  /\ ~UnderLayoutDirectory(p)
                  /\ Qualifies(before[p])}

\* The records of the host mapping that the pass took as layout records.
InCollection(p) ==
  shared /\ UnderPrefix(layoutsPrefix, p) /\ p.base \in DOMAIN collection

\* C20: a record of the host mapping that is neither in the Content Set
\* nor a record of the layout collection is, at every moment of the pass
\* and whatever its outcome, the record the pass found: same payload, same
\* layout property, same data.
C20_ExcludedUnchanged ==
  \A p \in DOMAIN files :
    (p \notin ValidSet /\ ~InCollection(p)) => files[p] = before[p]

\* A pass has ended in which one content file that names a layout was
\* excluded and the other was rewritten.
C20_Witness ==
  /\ pc = "end"
  /\ \E p, q \in ContentPaths :
       /\ p \notin ValidSet /\ Truthy(before[p].layout)
       /\ before[p].layout.segs \in DOMAIN loaded
       /\ q \in ValidSet /\ files[q] # before[q]

\* The number of ancestors of a layout of a forest: 0 for a root.
Depth(coll, n) ==
  Cardinality({k \in 1..Cardinality(DOMAIN coll) : Up(coll, n, k) # <<>>})

\* C14 (as claimed): layouts are rendered level by level: when the render
\* of a layout at depth d+1 starts, the render of every layout at depth d,
\* in every tree of the forest, has been started and has finished (the
\* roots, depth 0, are not rendered and count as finished).
C14_LevelByLevel ==
  \A i \in DOMAIN log :
    log[i].isLayout =>
      \A m \in DOMAIN loaded :
        (/\ Depth(loaded, m) >= 1
         /\ Depth(loaded, m) + 1 = Depth(loaded, log[i].node.base)) =>
          \E j \in 1..(i - 1) : log[j].node = LayoutPath(m)

\* How often a name occurs in a list.
Occurrences(list, n) == Cardinality({i \in DOMAIN list : list[i] = n})

\* The children list of a record, empty where the record has none.
ChildrenOf(t, n) == IF n \in DOMAIN t.children THEN t.children[n] ELSE <<>>

\* C15: after createLayoutTree has run over every name of a collection
\* without cycle in which every layout reference resolves, in whatever
\* order the names are enumerated, nothing was thrown, every layout without
\* layout reference is once in the roots and in no children list, every
\* other layout is once in the children list of the parent it names and
\* in no other list, and no record is marked being-visited.
C15_TreeIsTheForest ==
  (pc \in {"tasks", "rejected"} /\ Resolves(loaded) /\ ~HasCycle(loaded)) =>
    /\ tree.error = NoError
    /\ tree.seen = {}
    /\ tree.finished = DOMAIN loaded
    /\ DOMAIN tree.children \subseteq DOMAIN loaded
    /\ \A n \in DOMAIN loaded :
         /\ Occurrences(tree.roots, n) = IF HasParent(loaded, n) THEN 0 ELSE 1
         /\ \A q \in DOMAIN loaded :
              Occurrences(ChildrenOf(tree, q), n) =
                IF HasParent(loaded, n) /\ ParentName(loaded, n) = q THEN 1 ELSE 0

\* The tree was built for a layout with two children, the names enumerated
\* in an order that is neither the alphabet's nor its reverse and that
\* begins with one of the children.
C15_Witness ==
  /\ pc = "tasks"
  /\ Resolves(loaded) /\ ~HasCycle(loaded)
  /\ keyOrder \notin KeyOrders
  /\ HasParent(loaded, keyOrder[1])
  /\ \E q \in DOMAIN tree.children : Len(tree.children[q]) = 2

\* The layout prefix that follows from the pass's own source root and
\* directory option: the directory relative to the source root when it
\* lies inside, empty when it lies outside.
OwnPrefix ==
  LET relativePath == relative(SourceRoot, settings.directory)
  IN IF StartsWithDotDotSep(relativePath) THEN <<>> ELSE relativePath

\* C17 (as claimed): in every pass of a process the layout prefix, which
\* decides the files the pass excludes as layouts, is the one that follows
\* from the pass's own source root and directory option, and the pass takes
\* its layouts from the host mapping exactly when that prefix is not
\* empty: with a directory outside the source root it loads them with a
\* nested pass, whatever the earlier passes used.
C17_OwnOptionsOnly ==
  /\ pc # "start" => layoutsPrefix = OwnPrefix
  /\ HasCollection => (shared <=> OwnPrefix # <<>>)

\* The pass before this one ended with success on layouts of the host
\* mapping.
AfterSuccessOnHost ==
  /\ passes # <<>>
  /\ NoError \in {Last(passes).callbacks[i] : i \in DOMAIN Last(passes).callbacks}
  /\ Last(passes).shared

\* C19: a pass that follows a successful pass on the same mapping, the
\* layouts being in the mapping, renders no layout: no layout render is
\* chained or started, the tree it builds has every layout once in the
\* roots and no children list, nothing is rejected, and every layout
\* payload stays what the first pass left.
C19_SecondPassRendersNoLayout ==
  (AfterSuccessOnHost /\ shared /\ HasCollection) =>
    /\ tasks = <<>> /\ pc # "rejected"
    /\ \A i \in DOMAIN log : ~log[i].isLayout
    /\ pc # "layouts" =>
         /\ DOMAIN tree.children = {}
         /\ \A n \in DOMAIN collection : Occurrences(tree.roots, n) = 1
    /\ \A n \in DOMAIN collection :
         /\ collection[n].contents = before[LayoutPath(n)].contents
         /\ files[LayoutPath(n)].contents = before[LayoutPath(n)].contents

\* A second pass has ended after a first pass that rendered two layouts of
\* the host mapping and ended with success.
C19_Witness ==
  /\ pc = "end"
  /\ AfterSuccessOnHost /\ shared
  /\ Cardinality(Last(passes).rendered \cap LayoutPaths) >= 2
  /\ \E i \in DOMAIN log : ~log[i].isLayout /\ log[i].error = NoError

====
